---- MODULE Spec2Model ----
(***************************************************************************)
(* Model of sample-data/generate_logs.py: the log event generator          *)
(* (generate_log_event), the producer loop (produce_logs), the connection  *)
(* self-test (test_connection) and the command line driver (main).         *)
(*                                                                         *)
(* Two specifications are given.  SpecGen runs generate_log_event twice    *)
(* against a mocked random source that replays one tape of draws; Spec is  *)
(* one run of main from argument parsing to process exit.                  *)
(***************************************************************************)
EXTENDS Integers, Sequences, FiniteSets, TLC

VARIABLES
    pc,         \* position of main: see the actions below
    args,       \* parsed command line: test_connection, continuous, count
    producer,   \* "none" | "open" | "closed": the KafkaProducer of this run
    closes,     \* number of producer.close() calls so far
    phase,      \* TRUE once main has entered its try block (line 471)
    batches,    \* number of produce_logs calls started
    i,          \* loop index of the running produce_logs call
    attempts,   \* producer.send calls issued by the running produce_logs call
    failures,   \* sends of the running call that raised and were caught
    flushes,    \* producer.flush calls issued by the running produce_logs call
    returned,   \* TRUE when the last produce_logs call returned normally
    lastSend,   \* the most recent producer.send: source, key and value
    success,    \* result of test_connection: "unset" | "true" | "false"
    exitCode,   \* process exit status, -1 while the process runs
    clock,      \* last reading of the wall clock
    draws,      \* the values the random source hands out to one call
    log,        \* the record returned by the latest generate_log_event call
    prevLog,    \* the record returned by the call before that
    calls       \* generate_log_event calls made against the mocked source

vars == <<pc, args, producer, closes, phase, batches, i, attempts, failures,
          flushes, returned, lastSend, success, exitCode, clock, draws, log,
          prevLog, calls>>

(***************************************************************************)
(* Bounds of the model.                                                    *)
(***************************************************************************)
MaxCount == 2       \* largest --count argument explored
MaxBatches == 2     \* produce_logs calls explored in continuous mode
MaxClock == 1       \* wall clock readings are 0..MaxClock

(***************************************************************************)
(* Catalogs (lines 48-120).                                                *)
(***************************************************************************)
SERVICES ==
    <<"web-api", "auth-service", "db-service", "payment-service",
      "inventory-service", "notification-service", "search-service",
      "analytics-service">>

HOSTS ==
    ("web-api" :> <<"api-server-01", "api-server-02", "api-server-03">>) @@
    ("auth-service" :> <<"auth-server-01", "auth-server-02">>) @@
    ("db-service" :> <<"db-server-01">>) @@
    ("payment-service" :> <<"payment-server-01", "payment-server-02">>) @@
    ("inventory-service" :> <<"inventory-server-01", "inventory-server-02">>) @@
    ("notification-service" :> <<"notif-server-01">>) @@
    ("search-service" :> <<"search-server-01", "search-server-02">>) @@
    ("analytics-service" :> <<"analytics-server-01">>)

\* LOG_LEVELS in insertion order, weights in hundredths.
LOG_LEVELS ==
    << [item |-> "INFO", weight |-> 70],
       [item |-> "WARN", weight |-> 20],
       [item |-> "ERROR", weight |-> 10] >>

INFO_MESSAGES ==
    <<"Request processed successfully", "User authentication successful",
      "GET /api/v1/products", "POST /api/v1/orders", "PUT /api/v1/cart",
      "DELETE /api/v1/cart/items", "GET /api/v1/users/profile",
      "Search query executed", "Payment processed", "Email notification sent",
      "SMS notification sent", "Daily report generated",
      "Cache refreshed successfully", "Session created",
      "File uploaded successfully">>

WARN_MESSAGES ==
    <<"Query execution took longer than expected",
      "Low stock alert for product SKU-12345",
      "Multiple failed login attempts detected",
      "Connection pool nearly exhausted", "Payment declined",
      "Rate limit approaching threshold", "Memory usage above 80%",
      "Disk space running low">>

ERROR_MESSAGES ==
    << <<"Database connection timeout", "ConnectionTimeout">>,
       <<"Payment gateway timeout", "GatewayTimeout">>,
       <<"Deadlock detected in transaction", "DeadlockDetected">>,
       <<"Failed to update inventory count", "ConcurrencyException">>,
       <<"Internal server error", "NullPointerException">>,
       <<"Service unavailable", "ServiceUnavailable">>,
       <<"Authentication failed", "AuthenticationError">>,
       <<"Invalid input data", "ValidationError">> >>

STATUS_CODES ==
    [INFO |-> <<200, 201, 204>>,
     WARN |-> <<200, 402>>,
     ERROR |-> <<500, 503, 504, 409>>]

Range(s) == {s[k] : k \in DOMAIN s}

(***************************************************************************)
(* The random source.  A draw is the value one call of the random module   *)
(* returns: random() in hundredths (0..99), choice(seq) as a 1-based       *)
(* index, randint(a, b) as the integer, randbytes(4) as four bytes and     *)
(* uniform(a, b) in thousandths.                                           *)
(***************************************************************************)

\* random.choices(items, weights)[0] for the draw r of random(): the first
\* item whose cumulative weight exceeds r * total, the last item at most.
RECURSIVE CumWeight(_, _)
CumWeight(choices, k) ==
    IF k = 0 THEN 0 ELSE CumWeight(choices, k - 1) + choices[k].weight

weighted_choice(choices, r) ==
    LET total == CumWeight(choices, Len(choices))
        hits == {k \in 1..Len(choices) : r * total < CumWeight(choices, k) * 100}
        k == IF hits = {} THEN Len(choices)
             ELSE CHOOSE h \in hits : \A g \in hits : h <= g
    IN  choices[k].item

HexDigits ==
    <<"0", "1", "2", "3", "4", "5", "6", "7",
      "8", "9", "a", "b", "c", "d", "e", "f">>

\* bytes.hex(): two lowercase hexadecimal digits per byte.
Hex(bs) ==
    [k \in 1..(2 * Len(bs)) |->
        IF k % 2 = 1 THEN HexDigits[(bs[(k + 1) \div 2] \div 16) + 1]
                     ELSE HexDigits[(bs[k \div 2] % 16) + 1]]

\* datetime.now(timezone.utc).isoformat().replace("+00:00", "Z")
IsoFormat(now) == <<now, "+00:00">>

Timestamp(now) ==
    LET iso == IsoFormat(now)
    IN  [iso EXCEPT ![2] = IF @ = "+00:00" THEN "Z" ELSE @]

\* round(x, 2) of a value given in thousandths, in hundredths.
Round2(x) == (x + 5) \div 10

\* f"user-{n}"
UserId(n) == <<"user-", n>>

IpAddress_tenNet(c, d) == <<10, 0, c, d>>

\* f"192.168.{c}.{d}": the dotted quad as its four octets.
IpAddress(c, d) == <<192, 168, c, d>>

(***************************************************************************)
(* generate_log_event (lines 130-177).  d is the tape of draws the call    *)
(* consumes, one field per call site of the random module, and now is the  *)
(* clock reading of line 141.  A dict is a function from its keys, and     *)
(* log[k] = v is Put(log, k, v).                                           *)
(***************************************************************************)
Put(dict, k, v) == (k :> v) @@ dict

BaseLog_crossHost(d, now) ==
    LET service == SERVICES[d.service_i]
        other == SERVICES[(d.service_i % Len(SERVICES)) + 1]
    IN  [timestamp |-> Timestamp(now),
         level |-> weighted_choice(LOG_LEVELS, d.level_r),
         service |-> service,
         host |-> HOSTS[other][1],
         request_id |-> <<"req-", Hex(d.req_bytes)>>]

BaseLog_clockId(d, now) ==
    LET service == SERVICES[d.service_i]
    IN  [timestamp |-> Timestamp(now),
         level |-> weighted_choice(LOG_LEVELS, d.level_r),
         service |-> service,
         host |-> HOSTS[service][d.host_i],
         request_id |-> <<"req-", Hex(<<now, now, now, now>>)>>]

\* Lines 133-146: level, service, host and the base record.
BaseLog(d, now) ==
    LET level == weighted_choice(LOG_LEVELS, d.level_r)
        service == SERVICES[d.service_i]
        host == HOSTS[service][d.host_i]
    IN  [timestamp |-> Timestamp(now),
         level |-> level,
         service |-> service,
         host |-> host,
         request_id |-> <<"req-", Hex(d.req_bytes)>>]

InfoFields_errorCodes(base, d) ==
    LET l1 == Put(base, "message", INFO_MESSAGES[d.msg_i])
        l2 == Put(l1, "duration_ms", d.dur)
        l3 == Put(l2, "status_code", STATUS_CODES.ERROR[d.status_i])
        l4 == IF d.user_r < 70
              THEN Put(l3, "user_id", UserId(d.user_n)) ELSE l3
        l5 == IF d.ip_r < 50 /\ base.service = "web-api"
              THEN Put(l4, "ip_address", IpAddress(d.ip_c, d.ip_d)) ELSE l4
    IN  IF d.amt_r < 30 /\ base.service = "payment-service"
        THEN Put(l5, "amount", Round2(d.amt)) ELSE l5

\* Lines 150-160: the INFO branch.
InfoFields(base, d) ==
    LET l1 == Put(base, "message", INFO_MESSAGES[d.msg_i])
        l2 == Put(l1, "duration_ms", d.dur)
        l3 == Put(l2, "status_code", STATUS_CODES.INFO[d.status_i])
        l4 == IF d.user_r < 70
              THEN Put(l3, "user_id", UserId(d.user_n)) ELSE l3
        l5 == IF d.ip_r < 50 /\ base.service = "web-api"
              THEN Put(l4, "ip_address", IpAddress(d.ip_c, d.ip_d)) ELSE l4
    IN  IF d.amt_r < 30 /\ base.service = "payment-service"
        THEN Put(l5, "amount", Round2(d.amt)) ELSE l5

WarnFields_noStatus(base, d) ==
    LET l1 == Put(base, "message", WARN_MESSAGES[d.msg_i])
        l3 == IF d.dur_r < 50 THEN Put(l1, "duration_ms", d.dur) ELSE l1
    IN  IF d.user_r < 40 THEN Put(l3, "user_id", UserId(d.user_n)) ELSE l3

\* Lines 163-168: the WARN branch.
WarnFields(base, d) ==
    LET l1 == Put(base, "message", WARN_MESSAGES[d.msg_i])
        l2 == Put(l1, "status_code", STATUS_CODES.WARN[d.status_i])
        l3 == IF d.dur_r < 50 THEN Put(l2, "duration_ms", d.dur) ELSE l2
    IN  IF d.user_r < 40 THEN Put(l3, "user_id", UserId(d.user_n)) ELSE l3

ErrorFields_noError(base, d) ==
    LET pair == ERROR_MESSAGES[d.msg_i]
        l1 == Put(base, "message", pair[1])
        l3 == Put(l1, "status_code", STATUS_CODES.ERROR[d.status_i])
    IN  Put(l3, "duration_ms", d.dur)

\* Lines 171-175: the ERROR branch.
ErrorFields(base, d) ==
    LET pair == ERROR_MESSAGES[d.msg_i]
        l1 == Put(base, "message", pair[1])
        l2 == Put(l1, "error", pair[2])
        l3 == Put(l2, "status_code", STATUS_CODES.ERROR[d.status_i])
    IN  Put(l3, "duration_ms", d.dur)

generate_log_event(d, now) ==
    LET base == BaseLog(d, now)
    IN  IF base.level = "INFO" THEN InfoFields(base, d)
        ELSE IF base.level = "WARN" THEN WarnFields(base, d)
        ELSE ErrorFields(base, d)

(***************************************************************************)
(* The tapes the random source is made to hand out.  Each call site draws  *)
(* from the end points of its range (wide) or from one value (narrow); a   *)
(* tape holds exactly the draws the call consumes, so a draw that is not   *)
(* made (user_n when user_r >= 70) is not on the tape.                     *)
(***************************************************************************)
NoDraws == [level_r |-> -1]

RollSamples(thr, wide) == IF wide THEN {thr - 1, thr} ELSE {thr}
IntSamples(lo, hi, wide) == IF wide THEN {lo, hi} ELSE {lo}
OctetSamples(wide) == IF wide THEN {1, 128, 255} ELSE {1}
EndIndexes(seq, wide) == IF wide THEN {1, Len(seq)} ELSE {1}
AllIndexes(seq, wide) == IF wide THEN 1..Len(seq) ELSE {1}
BytesSamples(wide) ==
    IF wide THEN {<<0, 0, 0, 0>>, <<222, 173, 190, 239>>}
            ELSE {<<222, 173, 190, 239>>}
AmountSamples(wide) == IF wide THEN {9990, 123456, 999990} ELSE {123456}
LevelSamples(wide) == IF wide THEN {69, 70, 89, 90} ELSE {0, 70, 90}

Nothing == {<<>>}

CommonDraws(wide) ==
    UNION { [level_r : LevelSamples(wide), service_i : {s},
             host_i : AllIndexes(HOSTS[SERVICES[s]], wide),
             req_bytes : BytesSamples(wide)] : s \in 1..Len(SERVICES) }

UserDraws(r, thr, wide) ==
    IF r < thr THEN [user_n : IntSamples(10000, 99999, wide)] ELSE Nothing

InfoDraws(c, wide) ==
    LET service == SERVICES[c.service_i]
        heads == [msg_i : EndIndexes(INFO_MESSAGES, wide),
                  dur : IntSamples(10, 500, wide),
                  status_i : AllIndexes(STATUS_CODES.INFO, wide),
                  user_r : RollSamples(70, wide),
                  ip_r : RollSamples(50, wide),
                  amt_r : RollSamples(30, wide)]
        ips(h) == IF h.ip_r < 50 /\ service = "web-api"
                  THEN [ip_c : OctetSamples(wide), ip_d : OctetSamples(wide)]
                  ELSE Nothing
        amts(h) == IF h.amt_r < 30 /\ service = "payment-service"
                   THEN [amt : AmountSamples(wide)] ELSE Nothing
    IN  UNION { { c @@ h @@ u @@ p @@ a :
                    u \in UserDraws(h.user_r, 70, wide),
                    p \in ips(h), a \in amts(h) } : h \in heads }

WarnDraws(c, wide) ==
    LET heads == [msg_i : EndIndexes(WARN_MESSAGES, wide),
                  status_i : AllIndexes(STATUS_CODES.WARN, wide),
                  dur_r : RollSamples(50, wide),
                  user_r : RollSamples(40, wide)]
        durs(h) == IF h.dur_r < 50 THEN [dur : IntSamples(500, 2000, wide)]
                   ELSE Nothing
    IN  UNION { { c @@ h @@ t @@ u :
                    t \in durs(h), u \in UserDraws(h.user_r, 40, wide) }
                : h \in heads }

ErrorDraws(c, wide) ==
    { c @@ h : h \in [msg_i : AllIndexes(ERROR_MESSAGES, wide),
                      status_i : AllIndexes(STATUS_CODES.ERROR, wide),
                      dur : IntSamples(1000, 10000, wide)] }

Tapes(wide) ==
    UNION { LET level == weighted_choice(LOG_LEVELS, c.level_r)
            IN  IF level = "INFO" THEN InfoDraws(c, wide)
                ELSE IF level = "WARN" THEN WarnDraws(c, wide)
                ELSE ErrorDraws(c, wide)
            : c \in CommonDraws(wide) }

Draws == Tapes(TRUE)
LoopDraws == Tapes(FALSE)

NoLog == [level |-> "NONE"]

(***************************************************************************)
(* SpecGen: generate_log_event called twice against a mocked random source *)
(* that replays the same tape, the wall clock advancing freely.            *)
(***************************************************************************)
InitGen ==
    /\ pc = "mock"
    /\ args = [test_connection |-> FALSE, continuous |-> FALSE, count |-> 0]
    /\ producer = "none" /\ closes = 0 /\ phase = FALSE /\ batches = 0
    /\ i = 0 /\ attempts = 0 /\ failures = 0 /\ flushes = 0
    /\ returned = FALSE
    /\ lastSend = [src |-> "none"]
    /\ success = "unset" /\ exitCode = -1
    /\ clock = 0
    /\ draws = NoDraws /\ log = NoLog /\ prevLog = NoLog /\ calls = 0

mainVars == <<args, producer, closes, phase, batches, i, attempts, failures,
              flushes, returned, lastSend, success, exitCode>>

\* The test installs the tape the random source will replay.
MockRandom ==
    /\ pc = "mock"
    /\ \E d \in Draws : draws' = d
    /\ pc' = "call"
    /\ UNCHANGED <<mainVars, clock, log, prevLog, calls>>

\* Wall clock time passes.
Tick ==
    /\ pc = "call"
    /\ clock < MaxClock
    /\ clock' = clock + 1
    /\ UNCHANGED <<mainVars, pc, draws, log, prevLog, calls>>

\* One call of generate_log_event against the replayed tape.
Invoke ==
    /\ pc = "call"
    /\ calls < 2
    /\ log' = generate_log_event(draws, clock)
    /\ prevLog' = log
    /\ calls' = calls + 1
    /\ UNCHANGED <<mainVars, pc, clock, draws>>

NextGen == MockRandom \/ Tick \/ Invoke

SpecGen == InitGen /\ [][NextGen]_vars

(***************************************************************************)
(* Spec: one run of main (lines 352-488) with brokers and topic set.       *)
(***************************************************************************)
Counts == (-1)..MaxCount

Init ==
    /\ pc = "start"
    /\ args \in [test_connection : BOOLEAN, continuous : BOOLEAN,
                 count : Counts]
    /\ producer = "none" /\ closes = 0 /\ phase = FALSE /\ batches = 0
    /\ i = 0 /\ attempts = 0 /\ failures = 0 /\ flushes = 0
    /\ returned = FALSE
    /\ lastSend = [src |-> "none"]
    /\ success = "unset" /\ exitCode = -1
    /\ clock = 0
    /\ draws = NoDraws /\ log = NoLog /\ prevLog = NoLog /\ calls = 0

genVars == <<clock, draws, log, prevLog, calls>>
callVars == <<batches, i, attempts, failures, flushes, returned>>

\* Line 449: connection test mode or production.
Dispatch ==
    /\ pc = "start"
    /\ pc' = IF args.test_connection THEN "tc_create" ELSE "create"
    /\ UNCHANGED <<args, producer, closes, phase, callVars, lastSend, success,
                   exitCode, genVars>>

\* test_connection, lines 238-244: create_producer returns a producer or
\* ends the process with sys.exit(1) (lines 210-220), which the
\* except Exception clause of line 242 does not catch.
TestCreateProducer ==
    /\ pc = "tc_create"
    /\ \E ok \in BOOLEAN :
         IF ok
         THEN /\ producer' = "open"
              /\ pc' = "tc_meta"
              /\ UNCHANGED exitCode
         ELSE /\ pc' = "exited"
              /\ exitCode' = 1
              /\ UNCHANGED producer
    /\ UNCHANGED <<args, closes, phase, callVars, lastSend, success, genVars>>

\* test_connection, lines 247-262: the metadata fetch; a failure is printed.
TestMetadata ==
    /\ pc = "tc_meta"
    /\ pc' = "tc_topic"
    /\ UNCHANGED <<args, producer, closes, phase, callVars, lastSend, success,
                   exitCode, genVars>>

\* test_connection, lines 265-284: the topic lookup; a failure is printed.
TestTopic ==
    /\ pc = "tc_topic"
    /\ pc' = "tc_write"
    /\ UNCHANGED <<args, producer, closes, phase, callVars, lastSend, success,
                   exitCode, genVars>>

\* test_connection, lines 287-317: send the test message, close the
\* producer, return whether the send succeeded.
TestWrite ==
    /\ pc = "tc_write"
    /\ \E now \in clock..MaxClock, outcome \in {"ok", "send_raises", "get_raises"} :
         /\ clock' = now
         /\ lastSend' = [src |-> "test_connection", key |-> "test",
                         value |-> [test |-> TRUE,
                                    message |-> "Connection test from generate_logs.py",
                                    timestamp |-> Timestamp(now)]]
         /\ success' = IF outcome = "ok" THEN "true" ELSE "false"
    /\ producer' = "closed"
    /\ closes' = closes + 1
    /\ pc' = "tc_done"
    /\ UNCHANGED <<args, phase, callVars, exitCode, draws, log, prevLog, calls>>

ExitAfterTest_fallThrough ==
    /\ pc = "tc_done"
    /\ pc' = "create"
    /\ UNCHANGED <<args, producer, closes, phase, callVars, lastSend, success,
                   exitCode, genVars>>

\* Line 458: sys.exit(0 if success else 1).
ExitAfterTest ==
    /\ pc = "tc_done"
    /\ pc' = "exited"
    /\ exitCode' = IF success = "true" THEN 0 ELSE 1
    /\ UNCHANGED <<args, producer, closes, phase, callVars, lastSend, success,
                   genVars>>

\* Lines 461-469: create_producer returns a producer or ends the process
\* with sys.exit(1).
CreateProducer ==
    /\ pc = "create"
    /\ \E ok \in BOOLEAN :
         IF ok
         THEN /\ producer' = "open"
              /\ pc' = "connected"
              /\ UNCHANGED exitCode
         ELSE /\ pc' = "exited"
              /\ exitCode' = 1
              /\ UNCHANGED producer
    /\ UNCHANGED <<args, closes, phase, callVars, lastSend, success, genVars>>

\* Ctrl+C between create_producer returning and the try block of line 471:
\* the KeyboardInterrupt is not handled and the process ends.
InterruptBeforeTry ==
    /\ pc = "connected"
    /\ pc' = "exited"
    /\ exitCode' = 130
    /\ UNCHANGED <<args, producer, closes, phase, callVars, lastSend, success,
                   genVars>>

\* Lines 471-477 / 482: enter the try block and call produce_logs.
EnterTry ==
    /\ pc = "connected"
    /\ phase' = TRUE
    /\ batches' = batches + 1
    /\ i' = 0 /\ attempts' = 0 /\ failures' = 0 /\ flushes' = 0
    /\ returned' = FALSE
    /\ pc' = "loop"
    /\ UNCHANGED <<args, producer, closes, lastSend, success, exitCode, genVars>>

LoopIter_abortOnFailure ==
    /\ pc = "loop"
    /\ i < args.count
    /\ \E d \in LoopDraws, now \in clock..MaxClock,
          outcome \in {"ok", "send_raises", "get_raises", "interrupted"} :
         /\ draws' = d
         /\ clock' = now
         /\ log' = generate_log_event(d, now)
         /\ lastSend' = [src |-> "produce_logs", key |-> log'["service"],
                         value |-> log']
         /\ attempts' = attempts + 1
         /\ failures' = IF outcome \in {"send_raises", "get_raises"}
                        THEN failures + 1 ELSE failures
         /\ IF outcome = "interrupted"
            THEN pc' = "finally" /\ UNCHANGED i
            ELSE IF outcome = "ok"
            THEN pc' = "loop" /\ i' = i + 1
            ELSE pc' = "loop" /\ i' = args.count
    /\ UNCHANGED <<args, producer, closes, phase, batches, flushes, returned,
                   success, exitCode, prevLog, calls>>

LoopIter_hostKey ==
    /\ pc = "loop"
    /\ i < args.count
    /\ \E d \in LoopDraws, now \in clock..MaxClock,
          outcome \in {"ok", "send_raises", "get_raises", "interrupted"} :
         /\ draws' = d
         /\ clock' = now
         /\ log' = generate_log_event(d, now)
         /\ lastSend' = [src |-> "produce_logs", key |-> log'["host"],
                         value |-> log']
         /\ attempts' = attempts + 1
         /\ failures' = IF outcome \in {"send_raises", "get_raises"}
                        THEN failures + 1 ELSE failures
         /\ IF outcome = "interrupted"
            THEN pc' = "finally" /\ UNCHANGED i
            ELSE pc' = "loop" /\ i' = i + 1
    /\ UNCHANGED <<args, producer, closes, phase, batches, flushes, returned,
                   success, exitCode, prevLog, calls>>

\* produce_logs, lines 324-345: one iteration of the loop.  The event is
\* generated, sent under its service as key, and the result awaited; an
\* Exception of send or get is caught and printed, a KeyboardInterrupt
\* leaves produce_logs for the handler of line 484.  sleep(delay) of line
\* 342 changes no state.
LoopIter ==
    /\ pc = "loop"
    /\ i < args.count
    /\ \E d \in LoopDraws, now \in clock..MaxClock,
          outcome \in {"ok", "send_raises", "get_raises", "interrupted"} :
         /\ draws' = d
         /\ clock' = now
         /\ log' = generate_log_event(d, now)
         /\ lastSend' = [src |-> "produce_logs", key |-> log'["service"],
                         value |-> log']
         /\ attempts' = attempts + 1
         /\ failures' = IF outcome \in {"send_raises", "get_raises"}
                        THEN failures + 1 ELSE failures
         /\ IF outcome = "interrupted"
            THEN pc' = "finally" /\ UNCHANGED i
            ELSE pc' = "loop" /\ i' = i + 1
    /\ UNCHANGED <<args, producer, closes, phase, batches, flushes, returned,
                   success, exitCode, prevLog, calls>>

\* produce_logs, lines 347-349: the loop is over, flush and return.  An
\* exception of flush leaves produce_logs and main through the finally
\* clause.
Flush ==
    /\ pc = "loop"
    /\ i >= args.count
    /\ flushes' = flushes + 1
    /\ \E ok \in BOOLEAN :
         IF ok
         THEN /\ returned' = TRUE
              /\ pc' = IF args.continuous THEN "sleep" ELSE "finally"
         ELSE /\ pc' = "finally_raise"
              /\ UNCHANGED returned
    /\ UNCHANGED <<args, producer, closes, phase, batches, i, attempts,
                   failures, lastSend, success, exitCode, genVars>>

\* Lines 478-480 and 476-477: the 5 second sleep ends and the next batch
\* starts.
NextBatch ==
    /\ pc = "sleep"
    /\ batches < MaxBatches
    /\ batches' = batches + 1
    /\ i' = 0 /\ attempts' = 0 /\ failures' = 0 /\ flushes' = 0
    /\ returned' = FALSE
    /\ pc' = "loop"
    /\ UNCHANGED <<args, producer, closes, phase, lastSend, success, exitCode,
                   genVars>>

Interrupt_noFinally ==
    /\ pc \in {"loop", "sleep"}
    /\ pc' = "exited"
    /\ exitCode' = 130
    /\ UNCHANGED <<args, producer, closes, phase, callVars, lastSend, success,
                   genVars>>

\* Lines 484-485: Ctrl+C between two sends of a batch or during the sleep.
Interrupt ==
    /\ pc \in {"loop", "sleep"}
    /\ pc' = "finally"
    /\ UNCHANGED <<args, producer, closes, phase, callVars, lastSend, success,
                   exitCode, genVars>>

\* Lines 486-488: close the producer; the process ends, with status 1 when
\* an exception is propagating.
Finally ==
    /\ pc \in {"finally", "finally_raise"}
    /\ producer' = "closed"
    /\ closes' = closes + 1
    /\ exitCode' = IF pc = "finally_raise" THEN 1 ELSE 0
    /\ pc' = "exited"
    /\ UNCHANGED <<args, phase, callVars, lastSend, success, genVars>>

Next ==
    \/ Dispatch
    \/ TestCreateProducer
    \/ TestMetadata
    \/ TestTopic
    \/ TestWrite
    \/ ExitAfterTest
    \/ CreateProducer
    \/ InterruptBeforeTry
    \/ EnterTry
    \/ LoopIter
    \/ Flush
    \/ NextBatch
    \/ Interrupt
    \/ Finally

Spec == Init /\ [][Next]_vars

(***************************************************************************)
(* Properties of generate_log_event, checked under SpecGen.                *)
(***************************************************************************)
Generated == calls >= 1
Has(l, f) == f \in DOMAIN l

BaseFields ==
    {"timestamp", "level", "service", "host", "request_id", "message",
     "status_code"}

AllHosts == UNION {Range(HOSTS[s]) : s \in DOMAIN HOSTS}
AllMessages ==
    Range(INFO_MESSAGES) \cup Range(WARN_MESSAGES)
        \cup {m[1] : m \in Range(ERROR_MESSAGES)}
AllStatusCodes == UNION {Range(STATUS_CODES[l]) : l \in DOMAIN STATUS_CODES}

\* C1: every generated event, whatever its level, service and draws, has
\* the seven base fields timestamp, level, service, host, request_id,
\* message and status_code, each holding a value of its kind (not None).
C1_BaseFieldsPresent ==
    Generated =>
        /\ \A f \in BaseFields : Has(log, f)
        /\ log["timestamp"] \in {Timestamp(t) : t \in 0..MaxClock}
        /\ log["level"] \in {"INFO", "WARN", "ERROR"}
        /\ log["service"] \in Range(SERVICES)
        /\ log["host"] \in AllHosts
        /\ log["request_id"][1] = "req-"
        /\ Len(log["request_id"][2]) = 8
        /\ \A k \in 1..8 : log["request_id"][2][k] \in Range(HexDigits)
        /\ log["message"] \in AllMessages
        /\ log["status_code"] \in AllStatusCodes

C1_Witness ==
    /\ Generated
    /\ log["level"] = "WARN"
    /\ ~Has(log, "duration_ms") /\ ~Has(log, "user_id")
    /\ Has(log, "status_code")

\* C2: error is present exactly at level ERROR; an ERROR event carries no
\* user_id, ip_address or amount; ip_address is present only at INFO for
\* web-api; amount is present only at INFO for payment-service.
C2_OptionalFields ==
    Generated =>
        /\ Has(log, "error") <=> log["level"] = "ERROR"
        /\ log["level"] = "ERROR" =>
              /\ ~Has(log, "user_id")
              /\ ~Has(log, "ip_address")
              /\ ~Has(log, "amount")
        /\ Has(log, "ip_address") =>
              log["level"] = "INFO" /\ log["service"] = "web-api"
        /\ Has(log, "amount") =>
              log["level"] = "INFO" /\ log["service"] = "payment-service"

C2_Witness ==
    /\ Generated
    /\ log["level"] = "ERROR"
    /\ log["service"] = "web-api"
    /\ Has(log, "error") /\ log["error"] = "ValidationError"

\* C3: the host of an event is one of the hosts HOSTS lists for the
\* service of that same event.
C3_HostOfService ==
    Generated => log["host"] \in Range(HOSTS[log["service"]])

C3_Witness ==
    /\ Generated
    /\ log["service"] = "web-api"
    /\ log["host"] = "api-server-03"

OctetRange == 1..255

\* The ip_address of the event the call would return had the two octet
\* draws been c and e, all other draws as they were.
IpWith(c, e) ==
    generate_log_event([draws EXCEPT !.ip_c = c, !.ip_d = e],
                       clock)["ip_address"]

\* C5 as claimed: an ip_address has four octets, each in 1..255, and every
\* value of 1..255 is a possible value of each of the four octets.
C5_AsClaimed ==
    (Generated /\ Has(log, "ip_address")) =>
        /\ Len(log["ip_address"]) = 4
        /\ \A k \in 1..4 : log["ip_address"][k] \in OctetRange
        /\ \A k \in 1..4 : \A v \in {1, 255} :
              \E c \in OctetRange, e \in OctetRange : IpWith(c, e)[k] = v

\* C5 amended: an ip_address has four octets; the first two are always 192
\* and 168; the last two are the two randint(1, 255) draws, so each lies in
\* 1..255 and every value of 1..255 is a possible value of each of them
\* (the last part is evaluated when the first call on a tape returns).
C5_PrivateNetAddress ==
    (Generated /\ Has(log, "ip_address")) =>
        /\ Len(log["ip_address"]) = 4
        /\ log["ip_address"][1] = 192
        /\ log["ip_address"][2] = 168
        /\ log["ip_address"][3] \in OctetRange
        /\ log["ip_address"][4] \in OctetRange
        /\ calls = 1 =>
              \A v \in OctetRange :
                 /\ IpWith(v, draws.ip_d) = <<192, 168, v, draws.ip_d>>
                 /\ IpWith(draws.ip_c, v) = <<192, 168, draws.ip_c, v>>

C5_Witness ==
    /\ Generated
    /\ log["level"] = "INFO" /\ log["service"] = "web-api"
    /\ Has(log, "ip_address")
    /\ log["ip_address"] = <<192, 168, 255, 1>>

\* C6 as claimed: two calls that receive the same draws return identical
\* records, field for field.
C6_AsClaimed ==
    calls = 2 => log = prevLog

\* C6 amended: two calls that receive the same draws return records with
\* the same fields and the same value in every field other than timestamp;
\* the records are identical when the two calls also read the same clock
\* value.
C6_SameDrawsSameRecordButTimestamp ==
    calls = 2 =>
        /\ DOMAIN log = DOMAIN prevLog
        /\ \A f \in DOMAIN log \ {"timestamp"} : log[f] = prevLog[f]
        /\ log["timestamp"] = prevLog["timestamp"] => log = prevLog

C6_Witness ==
    /\ calls = 2
    /\ log["timestamp"] # prevLog["timestamp"]
    /\ Has(log, "user_id") /\ Has(log, "amount")

InRange(x, lo, hi) == lo <= x /\ x <= hi

\* C7: status_code is one of the codes of the event's own level, and
\* duration_ms is present at INFO and ERROR and lies in the range of the
\* level whenever present: INFO 10..500, WARN 500..2000, ERROR 1000..10000.
C7_StatusAndDuration ==
    Generated =>
        /\ log["status_code"] \in Range(STATUS_CODES[log["level"]])
        /\ log["level"] \in {"INFO", "ERROR"} => Has(log, "duration_ms")
        /\ Has(log, "duration_ms") =>
              /\ log["level"] = "INFO" => InRange(log["duration_ms"], 10, 500)
              /\ log["level"] = "WARN" => InRange(log["duration_ms"], 500, 2000)
              /\ log["level"] = "ERROR" =>
                    InRange(log["duration_ms"], 1000, 10000)

C7_Witness ==
    /\ Generated
    /\ log["level"] = "WARN"
    /\ Has(log, "duration_ms") /\ log["duration_ms"] = 2000
    /\ log["status_code"] = 402

(***************************************************************************)
(* Properties of main, produce_logs and test_connection, checked under     *)
(* Spec.                                                                   *)
(***************************************************************************)

\* C4: every send of produce_logs carries as key the service field of the
\* event it carries as value, and that value is the event generated in the
\* same loop iteration.
C4_KeyIsService ==
    lastSend.src = "produce_logs" =>
        /\ lastSend.value = log
        /\ lastSend.key = lastSend.value["service"]
        /\ lastSend.key \in Range(SERVICES)

C4_Witness ==
    /\ lastSend.src = "produce_logs"
    /\ attempts = 2 /\ failures = 1
    /\ lastSend.key = "payment-service"

ProductionPcs == {"create", "connected", "loop", "sleep", "finally",
                  "finally_raise"}

\* C8: with --test-connection main never enters produce_logs and sends no
\* generated log event, and the process exits with status 0 if the test
\* succeeded and with a non-zero status otherwise.
C8_TestConnectionOnly ==
    args.test_connection =>
        /\ pc \notin ProductionPcs
        /\ batches = 0 /\ ~phase /\ attempts = 0
        /\ log = NoLog
        /\ lastSend.src # "produce_logs"
        /\ pc = "exited" => exitCode # -1
        /\ pc = "exited" => (exitCode = 0 <=> success = "true")

C8_Witness ==
    /\ args.test_connection
    /\ pc = "exited" /\ exitCode = 0
    /\ lastSend.src = "test_connection"
    /\ producer = "closed"

\* C9: for count >= 0 and any pattern of send failures, one call of
\* produce_logs attempts exactly count sends: a failed send is followed by
\* the attempts for the remaining events, and flush is called exactly once,
\* after the last attempt.
C9_CountAttemptsOneFlush ==
    (~args.test_connection /\ args.count >= 0) =>
        /\ attempts <= args.count
        /\ flushes <= 1
        /\ flushes = 1 => attempts = args.count
        /\ pc = "loop" => (attempts = i /\ flushes = 0)
        /\ returned => (attempts = args.count /\ flushes = 1)

C9_Witness ==
    /\ returned
    /\ args.count = 2
    /\ attempts = 2 /\ failures = 2
    /\ flushes = 1

\* C10: once main has entered the production phase with a producer, the
\* process ends only after producer.close has been called exactly once,
\* whether the batch completed, was interrupted or raised; close is never
\* called twice, and no send is issued on a closed producer.
C10_ClosedOnceInv ==
    /\ closes <= 1
    /\ (pc = "exited" /\ phase) => (closes = 1 /\ producer = "closed")

C10_NoSendAfterClose ==
    producer = "closed" => (lastSend' = lastSend /\ attempts' = attempts)

C10_CloseExactlyOnce ==
    [](C10_ClosedOnceInv) /\ [][C10_NoSendAfterClose]_vars

C10_Witness ==
    /\ pc = "exited" /\ phase
    /\ closes = 1
    /\ attempts >= 1 /\ ~returned
    /\ args.continuous

====
